---- MODULE Spec2Model ----
(***************************************************************************)
(* Model of the data-preparation scripts of holoviz-insights:              *)
(*   scripts/update_issues.py  (fetch_additional_issue_data,               *)
(*                              add_maintainer_responses, merge_and_save)  *)
(*   scripts/get_releases.py   (classify_release, command-line entry)      *)
(*   scripts/convert_json.py   (convert_json)                              *)
(*   scripts/process_repos.py  (the loop over the repositories)            *)
(* Strings the code inspects character by character (tags, URLs, logins)   *)
(* are sequences of one-character strings.  Sleep durations are recorded   *)
(* in milliseconds.                                                        *)
(***************************************************************************)
EXTENDS Integers, Sequences, FiniteSets, TLC

VARIABLES
    pc,             \* position of the running function
    attempt,        \* index of the running `for attempt in range(MAX_RETRIES)`
    faults,         \* number of failed requests so far
    log,            \* requests, sleeps and log lines: of the current retry loop
                    \* (fetch, classifier) or of the whole merge loop
    page,           \* fetch: page number of the issue listing
    result,         \* fetch: last response bound by `result = requests.get(...)`
    issues,         \* fetch: the batch parsed from `result`
    idx,            \* fetch: position of the item loop in `issues` (1-based)
    has_linked_pr,  \* fetch: the flag of the item being processed
    add_cols,       \* fetch: the mapping html_url -> enrichment fields
    served,         \* fetch: the non-empty batches parsed so far, by page
    data,           \* data["issues"]: the base records
    maintainers,    \* classifier: the configured maintainer list
    k,              \* position of `for issue in data["issues"]` (1-based)
    issue_number,   \* classifier: number parsed from html_url
    comments,       \* classifier: authors of the comments last listed
    extra_data,     \* merge: the enrichment mapping
    tag,            \* classify_release: the tag
    release_type,   \* classify_release: the value returned
    script,         \* the entry point a whole run was started from
    token,          \* the GH_TOKEN of the environment
    exit_status,    \* exit status of the process
    maintainers_given, \* merge_and_save: `maintainers is not None`
    original_json,  \* merge_and_save: path of the input file
    output_json,    \* merge_and_save: path of the output file
    files,          \* the files under data/, by path
    ops,            \* what a whole run did to the API and the files, in order
    repo_i,         \* process_repos: position in REPOS (1-based)
    now_ms,         \* _handle_rate_limit: time.time(), in milliseconds
    reset_time,     \* _handle_rate_limit: the X-RateLimit-Reset header
    df              \* convert_json: the JSON document and the frame built from it

fetchVars == <<page, result, issues, idx, has_linked_pr, add_cols, served>>
recordVars == <<data, maintainers, k, issue_number, comments, extra_data>>
releaseVars == <<tag, release_type>>
runVars == <<script, token, exit_status, maintainers_given, original_json, output_json,
             files, ops, repo_i, now_ms, reset_time, df>>

vars == <<pc, attempt, faults, log, fetchVars, recordVars, releaseVars, runVars>>

-----------------------------------------------------------------------------
(* Program constants, scripts/update_issues.py lines 12-14 *)
MAX_RETRIES == 3
RETRY_DELAY == 2
RATE_LIMIT_WAIT == 60

(* Bounds of the model *)
MaxPages == 2
MaxItems == 2
MaxFaults == 3

None == "None"

-----------------------------------------------------------------------------
(* Events of log; ctx is the text the line is about, or the body of the *)
(* response parsed from a request                                      *)
Event(e, w, a, st, millis, c) ==
    [ev |-> e, what |-> w, attempt |-> a, status |-> st, ms |-> millis, ctx |-> c]
Req(kind, a, outcome) == Event("request", kind, a, outcome, 0, <<>>)
Answer(kind, a, outcome, body) == Event("request", kind, a, outcome, 0, body)
Sleep(why, millis) == Event("sleep", why, 0, 0, millis, <<>>)
Log(level, msg) == Event(level, msg, 0, 0, 0, <<>>)
LogAbout(level, msg, c) == Event(level, msg, 0, 0, 0, c)

(* Outcome of requests.get raising RequestException *)
Exception == 0

(* a backoff that forgets the attempt index *)
BackoffFixed(a) == RETRY_DELAY * 1000

(* time.sleep(RETRY_DELAY * (attempt + 1)), in milliseconds *)
Backoff(a) == RETRY_DELAY * (a + 1) * 1000

(* _handle_rate_limit: the header carries reset - now, or is absent *)
NoHeader == [present |-> FALSE, delta |-> 0]
ResetHeaders == {NoHeader, [present |-> TRUE, delta |-> 5], [present |-> TRUE, delta |-> -3]}

Max(a, b) == IF a >= b THEN a ELSE b

(* a wait that does not clamp a reset time in the past *)
RateLimitWaitUnclamped(header) ==
    IF header.present THEN header.delta + 1 ELSE RATE_LIMIT_WAIT

RateLimitWait(header) ==
    IF header.present THEN Max(header.delta, 0) + 1 ELSE RATE_LIMIT_WAIT

_handle_rate_limit(header, context) ==
    << Log("warning", "rate limit hit" ),
       Sleep("rate_limit", RateLimitWait(header) * 1000) >>

(* _log_retry: a warning before the last attempt, an error on the last *)
_log_retry(error_type, a, max_retries) ==
    IF a < max_retries - 1
    THEN Log("warning", error_type)
    ELSE Log("error", error_type)

-----------------------------------------------------------------------------
(* Decimal text of a natural number: f"{n}" *)
DigitChars == <<"0", "1", "2", "3", "4", "5", "6", "7", "8", "9">>

RECURSIVE Str(_)
Str(n) == IF n < 10 THEN <<DigitChars[n + 1]>>
          ELSE Append(Str(n \div 10), DigitChars[(n % 10) + 1])

(* html_url of issue n: https://github.com/<repo>/issues/<n>, shortened *)
HtmlUrl(n) == <<"g", "/">> \o Str(n)

(* The items the issues endpoint can list.  A pull request carries the     *)
(* key "pull_request"; milestone is null or an object with a title.        *)
ItemShapes ==
    { [pull_request |-> TRUE,  state |-> "open",
       milestone |-> [null |-> TRUE, title |-> None], assignees |-> <<>>],
      [pull_request |-> FALSE, state |-> "open",
       milestone |-> [null |-> FALSE, title |-> "v1.0"],
       assignees |-> <<[login |-> "alice"]>>],
      [pull_request |-> FALSE, state |-> "closed",
       milestone |-> [null |-> TRUE, title |-> None], assignees |-> <<>>] }

MakeItem(shape, n) ==
    [html_url |-> HtmlUrl(n), number |-> n, pull_request |-> shape.pull_request,
     state |-> shape.state, milestone |-> shape.milestone,
     assignees |-> shape.assignees]

(* The batches page p can hold when n items were listed on the pages      *)
(* before it: the listing holds at most MaxItems items, numbered by their *)
(* position, on at most MaxPages pages; the pages after them are empty.    *)
Batches(p, n) ==
    IF p > MaxPages THEN { <<>> }
    ELSE UNION { { [i \in 1..m |-> MakeItem(f[i], n + i)] :
                     f \in [1..m -> ItemShapes] } : m \in 0..(MaxItems - n) }

RECURSIVE Flatten(_)
Flatten(batches) ==
    IF batches = <<>> THEN <<>> ELSE Head(batches) \o Flatten(Tail(batches))

(* Timeline bodies of a 200 response *)
XrefPR == [event |-> "cross-referenced", source_is_pr |-> TRUE]
XrefIssue == [event |-> "cross-referenced", source_is_pr |-> FALSE]
Commented == [event |-> "commented", source_is_pr |-> FALSE]
Timelines == { <<>>, <<XrefIssue>>, <<Commented, XrefPR>> }

(* a scan that takes any cross-reference for a linked pull request *)
AnyCrossReference(events) ==
    \E i \in 1..Len(events) : events[i].event = "cross-referenced"

(* lines 122-129: a cross-referenced event whose source issue is a PR *)
HasLinkedPR(events) ==
    \E i \in 1..Len(events) :
        events[i].event = "cross-referenced" /\ events[i].source_is_pr

(* a loop that gives up at the first failure *)
MayRetryNever(a) == FALSE

(* `if attempt < MAX_RETRIES - 1` *)
MayRetry(a) == a < MAX_RETRIES - 1

(* `continue` in a for loop: the next iteration *)
Continue(a) == a + 1

(* a loop that does not skip pull requests *)
NeverPullRequest(item) == FALSE

(* lines 103-104 *)
IsPullRequest(item) == item.pull_request

(* lines 157-163: the entry stored for an issue *)
Entry(item, linked) ==
    [milestone |-> IF item.milestone.null THEN None ELSE item.milestone.title,
     assignees |-> [i \in 1..Len(item.assignees) |-> item.assignees[i].login],
     has_linked_pr |-> linked]

(* d[k] = v on a dict *)
SetItem(d, key, v) == [x \in (DOMAIN d) \cup {key} |-> IF x = key THEN v ELSE d[x]]

EmptyDict == [x \in {} |-> None]

NoResult == [status |-> 0, items |-> <<>>, header |-> NoHeader]

ThrottleMs == 100

-----------------------------------------------------------------------------
(* fetch_additional_issue_data, lines 59-169 *)

(* No whole run is under way: a function was called on its own *)
NoExit == -1

Paths == {"data/metrics.json", "data/updated.json"}

Absent == [exists |-> FALSE, issues_key |-> FALSE, issues |-> <<>>]

NoHeaderValue == [present |-> FALSE, value |-> 0]

NoFrame ==
    [exists |-> FALSE, issues_key |-> FALSE, columns |-> {}, index |-> "None",
     parquet |-> FALSE]

IdleRun ==
    /\ script = "none"
    /\ token = "unset"
    /\ exit_status = NoExit
    /\ maintainers_given = FALSE
    /\ original_json = "data/metrics.json"
    /\ output_json = "data/updated.json"
    /\ files = [f \in Paths |-> Absent]
    /\ ops = <<>>
    /\ repo_i = 0
    /\ now_ms = 0
    /\ reset_time = NoHeaderValue
    /\ df = NoFrame

IdleRecords ==
    /\ data = <<>>
    /\ maintainers = <<>>
    /\ k = 0
    /\ issue_number = 0
    /\ comments = <<>>
    /\ extra_data = EmptyDict

IdleRelease ==
    /\ tag = <<>>
    /\ release_type = None

IdleFetch ==
    /\ page = 0
    /\ result = NoResult
    /\ issues = <<>>
    /\ idx = 0
    /\ has_linked_pr = FALSE
    /\ add_cols = EmptyDict
    /\ served = <<>>

InitFetch ==
    /\ pc = "page_req"
    /\ page = 1
    /\ attempt = 0
    /\ result = NoResult
    /\ issues = <<>>
    /\ idx = 0
    /\ has_linked_pr = FALSE
    /\ add_cols = EmptyDict
    /\ served = <<>>
    /\ faults = 0
    /\ log = <<>>
    /\ IdleRecords
    /\ IdleRelease
    /\ IdleRun

(* the log of the running retry loop: empty when the loop starts *)
LoopLog == IF attempt = 0 THEN <<>> ELSE log

(* lines 73-96: one iteration of the pagination retry loop *)
PageOk ==
    /\ pc = "page_req"
    /\ \E b \in Batches(page, Len(Flatten(served))) :
          result' = [status |-> 200, items |-> b, header |-> NoHeader]
    /\ log' = Append(LoopLog, Req("page", attempt, 200))
    /\ pc' = "parse"
    /\ UNCHANGED <<page, attempt, issues, idx, has_linked_pr, add_cols, served, faults>>
    /\ UNCHANGED <<recordVars, releaseVars, runVars>>

PageRateLimited ==
    /\ pc = "page_req"
    /\ faults < MaxFaults
    /\ \E h \in ResetHeaders :
          /\ result' = [status |-> 403, items |-> <<>>, header |-> h]
          /\ log' = Append(LoopLog, Req("page", attempt, 403))
                          \o _handle_rate_limit(h, "")
    /\ attempt' = Continue(attempt)
    /\ pc' = IF attempt' < MAX_RETRIES THEN "page_req" ELSE "parse"
    /\ faults' = faults + 1
    /\ UNCHANGED <<page, issues, idx, has_linked_pr, add_cols, served>>
    /\ UNCHANGED <<recordVars, releaseVars, runVars>>

PageOtherStatus ==
    /\ pc = "page_req"
    /\ faults < MaxFaults
    /\ result' = [status |-> 500, items |-> <<>>, header |-> NoHeader]
    /\ IF MayRetry(attempt)
       THEN /\ log' = LoopLog \o << Req("page", attempt, 500),
                                    Log("error", "GitHub API error"),
                                    Sleep("backoff", Backoff(attempt)) >>
            /\ attempt' = attempt + 1
            /\ pc' = "page_req"
       ELSE /\ log' = LoopLog \o << Req("page", attempt, 500),
                                    Log("error", "GitHub API error") >>
            /\ attempt' = attempt
            /\ pc' = "returned"
    /\ faults' = faults + 1
    /\ UNCHANGED <<page, issues, idx, has_linked_pr, add_cols, served>>
    /\ UNCHANGED <<recordVars, releaseVars, runVars>>

PageException ==
    /\ pc = "page_req"
    /\ faults < MaxFaults
    /\ IF MayRetry(attempt)
       THEN /\ log' = LoopLog \o << Req("page", attempt, Exception),
                                    _log_retry("Connection error", attempt, MAX_RETRIES),
                                    Sleep("backoff", Backoff(attempt)) >>
            /\ attempt' = attempt + 1
            /\ pc' = "page_req"
       ELSE /\ log' = LoopLog \o << Req("page", attempt, Exception),
                                    _log_retry("Connection error", attempt, MAX_RETRIES) >>
            /\ attempt' = attempt
            /\ pc' = "returned"
    /\ faults' = faults + 1
    /\ UNCHANGED <<page, result, issues, idx, has_linked_pr, add_cols, served>>
    /\ UNCHANGED <<recordVars, releaseVars, runVars>>

(* lines 98-107: issues = result.json(); an empty batch ends the loop.     *)
(* The body of a response that is not a 200 is no list of issues: a body   *)
(* that is not JSON makes result.json() raise, and GitHub's error object   *)
(* is a non-empty dict whose keys are strings, so issue["number"] raises.  *)
ParsePage ==
    /\ pc = "parse"
    /\ IF result.status # 200
       THEN /\ pc' = "raised"
            /\ UNCHANGED <<issues, idx, served>>
       ELSE /\ issues' = result.items
            /\ IF result.items = <<>>
               THEN /\ pc' = "returned"
                    /\ UNCHANGED <<idx, served>>
               ELSE /\ pc' = "item"
                    /\ idx' = 1
                    /\ served' = Append(served, result.items)
    /\ UNCHANGED <<page, attempt, result, has_linked_pr, add_cols, faults, log>>
    /\ UNCHANGED <<recordVars, releaseVars, runVars>>

(* end of one iteration of `for issue in issues`; line 167 after the last, *)
(* where the pagination retry loop starts again                            *)
Advance ==
    /\ attempt' = 0
    /\ IF idx < Len(issues)
       THEN /\ idx' = idx + 1
            /\ pc' = "item"
            /\ page' = page
       ELSE /\ idx' = idx
            /\ pc' = "page_req"
            /\ page' = page + 1

(* lines 157-166: the entry is stored under html_url, then the throttle *)
Store(item, linked) ==
    /\ has_linked_pr' = linked
    /\ add_cols' = SetItem(add_cols, item.html_url, Entry(item, linked))

(* lines 102-110: a pull request is skipped, an issue that is not open is  *)
(* stored at once, an open issue starts the timeline retry loop            *)
NextItem ==
    /\ pc = "item"
    /\ LET issue == issues[idx] IN
       IF IsPullRequest(issue)
       THEN /\ Advance
            /\ UNCHANGED <<has_linked_pr, add_cols, log>>
       ELSE IF issue.state = "open"
       THEN /\ pc' = "tl_req"
            /\ attempt' = 0
            /\ has_linked_pr' = FALSE
            /\ log' = <<>>
            /\ UNCHANGED <<page, idx, add_cols>>
       ELSE /\ Store(issue, FALSE)
            /\ log' = <<Sleep("throttle", ThrottleMs)>>
            /\ Advance
    /\ UNCHANGED <<result, issues, served, faults>>
    /\ UNCHANGED <<recordVars, releaseVars, runVars>>

(* lines 114-155: one iteration of the timeline retry loop; when the loop  *)
(* ends the entry is stored (lines 157-166)                                *)
TimelineOk ==
    /\ pc = "tl_req"
    /\ \E events \in Timelines :
          /\ Store(issues[idx], HasLinkedPR(events))
          /\ log' = LoopLog \o << Answer("timeline", attempt, 200, events),
                                  Sleep("throttle", ThrottleMs) >>
    /\ Advance
    /\ UNCHANGED <<result, issues, served, faults>>
    /\ UNCHANGED <<recordVars, releaseVars, runVars>>

TimelineRateLimited ==
    /\ pc = "tl_req"
    /\ faults < MaxFaults
    /\ \E h \in ResetHeaders :
         IF Continue(attempt) < MAX_RETRIES
         THEN /\ log' = Append(LoopLog, Req("timeline", attempt, 403))
                             \o _handle_rate_limit(h, "issue")
              /\ attempt' = Continue(attempt)
              /\ UNCHANGED <<pc, page, idx, has_linked_pr, add_cols>>
         ELSE /\ log' = Append(LoopLog, Req("timeline", attempt, 403))
                             \o _handle_rate_limit(h, "issue")
                             \o <<Sleep("throttle", ThrottleMs)>>
              /\ Store(issues[idx], has_linked_pr)
              /\ Advance
    /\ faults' = faults + 1
    /\ UNCHANGED <<result, issues, served>>
    /\ UNCHANGED <<recordVars, releaseVars, runVars>>

TimelineOtherStatus ==
    /\ pc = "tl_req"
    /\ faults < MaxFaults
    /\ log' = LoopLog \o << Req("timeline", attempt, 500),
                            Log("warning", "Could not fetch timeline"),
                            Sleep("throttle", ThrottleMs) >>
    /\ Store(issues[idx], has_linked_pr)
    /\ Advance
    /\ faults' = faults + 1
    /\ UNCHANGED <<result, issues, served>>
    /\ UNCHANGED <<recordVars, releaseVars, runVars>>

TimelineException ==
    /\ pc = "tl_req"
    /\ faults < MaxFaults
    /\ IF MayRetry(attempt)
       THEN /\ log' = LoopLog \o << Req("timeline", attempt, Exception),
                                    _log_retry("Connection error", attempt, MAX_RETRIES),
                                    Sleep("backoff", Backoff(attempt)) >>
            /\ attempt' = attempt + 1
            /\ UNCHANGED <<pc, page, idx, has_linked_pr, add_cols>>
       ELSE /\ log' = LoopLog \o << Req("timeline", attempt, Exception),
                                    _log_retry("Connection error", attempt, MAX_RETRIES),
                                    Sleep("throttle", ThrottleMs) >>
            /\ Store(issues[idx], has_linked_pr)
            /\ Advance
    /\ faults' = faults + 1
    /\ UNCHANGED <<result, issues, served>>
    /\ UNCHANGED <<recordVars, releaseVars, runVars>>

NextFetch ==
    \/ PageOk \/ PageRateLimited \/ PageOtherStatus \/ PageException
    \/ ParsePage \/ NextItem
    \/ TimelineOk \/ TimelineRateLimited \/ TimelineOtherStatus \/ TimelineException

-----------------------------------------------------------------------------
(* Text helpers: str.lower, str.rstrip, str.split, int *)

(* str.lower on the letters the logins use *)
LowerChar(c) ==
    CASE c = "A" -> "a"
      [] c = "B" -> "b"
      [] c = "L" -> "l"
      [] c = "O" -> "o"
      [] OTHER -> c

Lower(s) == [i \in 1..Len(s) |-> LowerChar(s[i])]

RECURSIVE RStrip(_, _)
RStrip(s, c) ==
    IF s # <<>> /\ s[Len(s)] = c THEN RStrip(SubSeq(s, 1, Len(s) - 1), c) ELSE s

(* s.split("/")[-1]: the text after the last "/" *)
RECURSIVE LastSegment(_)
LastSegment(s) ==
    IF s = <<>> \/ s[Len(s)] = "/" THEN <<>>
    ELSE Append(LastSegment(SubSeq(s, 1, Len(s) - 1)), s[Len(s)])

IsDigit(c) == \E i \in 1..Len(DigitChars) : DigitChars[i] = c

DigitValue(c) == (CHOOSE i \in 1..Len(DigitChars) : DigitChars[i] = c) - 1

(* int(s) of a text of decimal digits *)
RECURSIVE IntOf(_)
IntOf(s) ==
    IF s = <<>> THEN 0
    ELSE IntOf(SubSeq(s, 1, Len(s) - 1)) * 10 + DigitValue(s[Len(s)])

AllDigits(s) == s # <<>> /\ \A i \in 1..Len(s) : IsDigit(s[i])

(* issue_number = None *)
NoNumber == -1

(* the parse without rstrip("/") *)
IssueNumberNoStrip(url) ==
    LET seg == LastSegment(url) IN
    IF AllDigits(seg) THEN IntOf(seg) ELSE NoNumber

(* lines 184-187: int(url.rstrip("/").split("/")[-1]), None when it raises *)
IssueNumberOf(url) ==
    LET seg == LastSegment(RStrip(url, "/")) IN
    IF AllDigits(seg) THEN IntOf(seg) ELSE NoNumber

(* dict.get(key, default) *)
Get(d, key, default) == IF key \in DOMAIN d THEN d[key] ELSE default

(* setdefault semantics: a key the record already has keeps its value *)
UpdateMissingOnly(d, e) ==
    [x \in (DOMAIN d) \cup (DOMAIN e) |-> IF x \in DOMAIN d THEN d[x] ELSE e[x]]

(* an accumulating merge: assignees are appended to those already there *)
UpdateAccumulate(d, e) ==
    [x \in (DOMAIN d) \cup (DOMAIN e) |->
        IF x \notin DOMAIN e THEN d[x]
        ELSE IF x = "assignees" /\ x \in DOMAIN d THEN d[x] \o e[x]
        ELSE e[x]]

(* dict.update(e): every key of e is set to e's value *)
Update(d, e) ==
    [x \in (DOMAIN d) \cup (DOMAIN e) |-> IF x \in DOMAIN e THEN e[x] ELSE d[x]]

-----------------------------------------------------------------------------
(* The base dataset: records of data["issues"] *)

MaxRecords == 2

U42 == <<"g", "/", "4", "2">>
U7 == <<"g", "/", "7">>
U7Slash == <<"g", "/", "7", "/">>
UBad == <<"g", "/", "x">>

(* a record as extracted, a record enriched by an earlier run, a record    *)
(* with a malformed URL, a record with a trailing slash, and a record      *)
(* without html_url                                                        *)
RecordShapes ==
    { [html_url |-> U42, title |-> "t1"],
      [html_url |-> U7, title |-> "t2", milestone |-> "v0.9",
       assignees |-> <<"bob">>, has_linked_pr |-> TRUE,
       maintainer_responded |-> TRUE],
      [html_url |-> UBad, title |-> "t3"],
      [html_url |-> U7Slash, title |-> "t4"],
      [title |-> "t5"] }

DataSets == UNION { [1..n -> RecordShapes] : n \in 0..MaxRecords }

(* logins and maintainer lists *)
MaintainerLists ==
    { <<>>, << <<"a", "l">> >>, << <<"B", "o">>, <<"A", "L">> >>, << <<"b", "o">> >> }

(* the authors of an issue's comments, in order *)
CommentLists ==
    { <<>>, << <<"A", "l">> >>, << <<"c", "y">>, <<"b", "o">> >>, << <<"c", "y">> >> }

-----------------------------------------------------------------------------
(* add_maintainer_responses, lines 172-213 *)

(* line 179 *)
MaintainersLower == [i \in 1..Len(maintainers) |-> Lower(maintainers[i])]

(* a membership test that forgets to lower-case the author *)
IsMaintainerExact(login) ==
    \E i \in 1..Len(MaintainersLower) : MaintainersLower[i] = login

(* line 195: comment.user.login.lower() in maintainers_lower *)
IsMaintainer(login) ==
    \E i \in 1..Len(MaintainersLower) : MaintainersLower[i] = Lower(login)

(* lines 194-197 *)
AnyMaintainerComment(authors) ==
    \E i \in 1..Len(authors) : IsMaintainer(authors[i])

InitClassify ==
    /\ pc = "m_start"
    /\ data \in DataSets
    /\ maintainers \in MaintainerLists
    /\ k = 0
    /\ issue_number = NoNumber
    /\ comments = <<>>
    /\ extra_data = EmptyDict
    /\ attempt = 0
    /\ faults = 0
    /\ log = <<>>
    /\ IdleFetch
    /\ IdleRelease
    /\ IdleRun

(* lines 174-181 *)
ClassifyStart ==
    /\ pc = "m_start"
    /\ IF maintainers = <<>> \/ data = <<>>
       THEN pc' = "m_returned" /\ k' = k
       ELSE pc' = "m_issue" /\ k' = 1
    /\ UNCHANGED <<attempt, faults, log, data, maintainers, issue_number, comments, extra_data>>
    /\ UNCHANGED <<fetchVars, releaseVars, runVars>>

(* an iteration that goes on without storing the field *)
SkipResponded(value) ==
    /\ data' = data
    /\ k' = k + 1
    /\ pc' = IF k < Len(data) THEN "m_issue" ELSE "m_returned"

(* line 213 and the next iteration of `for issue in data["issues"]` *)
SetResponded(value) ==
    /\ data' = [data EXCEPT ![k] = SetItem(@, "maintainer_responded", value)]
    /\ k' = k + 1
    /\ pc' = IF k < Len(data) THEN "m_issue" ELSE "m_returned"

(* lines 183-189, 211-213 *)
ClassifyIssue ==
    /\ pc = "m_issue"
    /\ LET url == Get(data[k], "html_url", <<>>)
           n == IssueNumberOf(url) IN
       IF n # NoNumber
       THEN /\ issue_number' = n
            /\ pc' = "m_req"
            /\ log' = <<>>
            /\ UNCHANGED <<data, k>>
       ELSE /\ issue_number' = n
            /\ log' = <<LogAbout("warning", "Could not extract issue number", url)>>
            /\ SetResponded(FALSE)
    /\ attempt' = 0
    /\ UNCHANGED <<faults, maintainers, comments, extra_data>>
    /\ UNCHANGED <<fetchVars, releaseVars, runVars>>

(* lines 191-198, 213: the comments are listed *)
CommentsOk ==
    /\ pc = "m_req"
    /\ \E authors \in CommentLists :
          /\ comments' = authors
          /\ SetResponded(AnyMaintainerComment(authors))
    /\ log' = Append(LoopLog, Req("comments", attempt, 200))
    /\ attempt' = 0
    /\ UNCHANGED <<faults, maintainers, issue_number, extra_data>>
    /\ UNCHANGED <<fetchVars, releaseVars, runVars>>

(* lines 199-210, 213: get_issue or get_comments raises *)
CommentsException ==
    /\ pc = "m_req"
    /\ faults < MaxFaults
    /\ IF MayRetry(attempt)
       THEN /\ log' = LoopLog \o << Req("comments", attempt, Exception),
                                    _log_retry("Error checking comments", attempt, MAX_RETRIES),
                                    Sleep("backoff", Backoff(attempt)) >>
            /\ attempt' = attempt + 1
            /\ UNCHANGED <<pc, data, k>>
       ELSE /\ log' = LoopLog \o << Req("comments", attempt, Exception),
                                    _log_retry("Error checking comments", attempt, MAX_RETRIES) >>
            /\ attempt' = 0
            /\ SetResponded(FALSE)
    /\ faults' = faults + 1
    /\ UNCHANGED <<maintainers, issue_number, comments, extra_data>>
    /\ UNCHANGED <<fetchVars, releaseVars, runVars>>

(* lines 177-178: g.get_repo(repo) raises, outside any try *)
GetRepoRaises ==
    /\ pc = "m_start"
    /\ maintainers # <<>>
    /\ pc' = "m_raised"
    /\ UNCHANGED <<attempt, faults, log, recordVars, fetchVars, releaseVars, runVars>>

NextClassify ==
    ClassifyStart \/ GetRepoRaises \/ ClassifyIssue \/ CommentsOk \/ CommentsException

-----------------------------------------------------------------------------
(* The merge loop of merge_and_save, lines 232-238 *)

(* issue.get("html_url") of a record without the key: None *)
NoneUrl == <<"None">>

EntryShapes ==
    { [milestone |-> "v1.0", assignees |-> <<"alice">>, has_linked_pr |-> TRUE],
      [milestone |-> None, assignees |-> <<>>, has_linked_pr |-> FALSE] }

(* the mappings fetch_additional_issue_data can return for the dataset *)
MappingKeys == {U42, U7, <<"g", "/", "9">>}

Mappings == UNION { [keys -> EntryShapes] : keys \in SUBSET MappingKeys }

(* a merge that fills defaults into a record without an entry *)
MergeRecordDefaults(issue, extra) ==
    LET url == Get(issue, "html_url", NoneUrl) IN
    IF url \in DOMAIN extra THEN Update(issue, extra[url])
    ELSE Update(issue, [milestone |-> None, assignees |-> <<>>, has_linked_pr |-> FALSE])

(* lines 234-236: the record after its iteration *)
MergeRecord(issue, extra) ==
    LET url == Get(issue, "html_url", NoneUrl) IN
    IF url \in DOMAIN extra THEN Update(issue, extra[url]) ELSE issue

(* lines 233-238: the dataset after the whole loop *)
MergeAll(d, extra) == [j \in 1..Len(d) |-> MergeRecord(d[j], extra)]

InitMerge ==
    /\ pc = "merge"
    /\ data \in DataSets
    /\ extra_data \in Mappings
    /\ k = 1
    /\ maintainers = <<>>
    /\ issue_number = NoNumber
    /\ comments = <<>>
    /\ attempt = 0
    /\ faults = 0
    /\ log = <<>>
    /\ IdleFetch
    /\ IdleRelease
    /\ IdleRun

(* one iteration of `for issue in data["issues"]`, lines 233-238 *)
MergeStep ==
    /\ pc = "merge"
    /\ k <= Len(data)
    /\ LET url == Get(data[k], "html_url", NoneUrl) IN
       /\ data' = [data EXCEPT ![k] = MergeRecord(@, extra_data)]
       /\ log' = IF url \in DOMAIN extra_data THEN log
                 ELSE Append(log, LogAbout("warning", "No enrichment data found", url))
    /\ k' = k + 1
    /\ UNCHANGED <<pc, attempt, faults, maintainers, issue_number, comments, extra_data>>
    /\ UNCHANGED <<fetchVars, releaseVars, runVars>>

(* the loop is exhausted: control reaches line 240 *)
MergeDone ==
    /\ pc = "merge"
    /\ k > Len(data)
    /\ pc' = "merged"
    /\ UNCHANGED <<attempt, faults, log, recordVars, fetchVars, releaseVars, runVars>>

NextMerge == MergeStep \/ MergeDone

-----------------------------------------------------------------------------
(* classify_release, scripts/get_releases.py lines 12-22 *)

MaxTagLen == 6

TagChars == {"v", "0", "1", "."}

Tags == UNION { [1..n -> TagChars] : n \in 0..MaxTagLen }

(* the longest run of digits s starts with: a greedy \d+ *)
RECURSIVE DigitRun(_)
DigitRun(s) ==
    IF s # <<>> /\ IsDigit(Head(s)) THEN <<Head(s)>> \o DigitRun(Tail(s)) ELSE <<>>

Drop(s, n) == SubSeq(s, n + 1, Len(s))

(* re.match(r"v?(\d+)\.(\d+)\.(\d+)", tag): anchored at the start only.    *)
(* Giving back digits or the "v" never helps this pattern, so the match is *)
(* the greedy one.                                                         *)
MatchVersion(t) ==
    LET s0 == IF t # <<>> /\ Head(t) = "v" THEN Tail(t) ELSE t
        g1 == DigitRun(s0)
        s1 == Drop(s0, Len(g1))
        dot1 == s1 # <<>> /\ Head(s1) = "."
        s2 == IF dot1 THEN Tail(s1) ELSE <<>>
        g2 == DigitRun(s2)
        s3 == Drop(s2, Len(g2))
        dot2 == s3 # <<>> /\ Head(s3) = "."
        s4 == IF dot2 THEN Tail(s3) ELSE <<>>
        g3 == DigitRun(s4)
    IN  [matched |-> g1 # <<>> /\ dot1 /\ g2 # <<>> /\ dot2 /\ g3 # <<>>,
         major |-> IntOf(g1), minor |-> IntOf(g2), patch |-> IntOf(g3)]

(* a rule that forgets `major > 0` *)
classify_release_any_major(t) ==
    LET m == MatchVersion(t) IN
    IF ~m.matched THEN "unknown"
    ELSE IF m.minor = 0 /\ m.patch = 0 THEN "major"
    ELSE IF m.patch = 0 THEN "minor"
    ELSE "patch"

classify_release(t) ==
    LET m == MatchVersion(t) IN
    IF ~m.matched THEN "unknown"
    ELSE IF m.major > 0 /\ m.minor = m.patch /\ m.patch = 0 THEN "major"
    ELSE IF m.patch = 0 THEN "minor"
    ELSE "patch"

InitRelease ==
    /\ pc = "classify"
    /\ tag \in Tags
    /\ release_type = None
    /\ attempt = 0
    /\ faults = 0
    /\ log = <<>>
    /\ IdleFetch
    /\ IdleRecords
    /\ IdleRun

ClassifyRelease ==
    /\ pc = "classify"
    /\ release_type' = classify_release(tag)
    /\ pc' = "classified"
    /\ UNCHANGED <<tag, attempt, faults, log, fetchVars, recordVars, runVars>>

-----------------------------------------------------------------------------
(* merge_and_save as a whole, scripts/update_issues.py lines 216-244.      *)
(* fetch_additional_issue_data is one step of it: the call returns one of  *)
(* the mappings it can return, or raises; add_maintainer_responses and the *)
(* merge loop run through their own actions.                               *)

MaxRunRecords == 1

(* a test that finds the key in every document *)
AnyDocument(doc) == TRUE

(* line 222: "issues" in data *)
HasIssuesKey(doc) == doc.issues_key

Document(records) == [exists |-> TRUE, issues_key |-> TRUE, issues |-> records]

(* a JSON document without the key "issues" *)
NoIssuesDoc == [exists |-> TRUE, issues_key |-> FALSE, issues |-> <<>>]

(* what the input path can hold when the run starts *)
InputDocs ==
    {Absent, NoIssuesDoc} \cup { Document(d) : d \in { x \in DataSets : Len(x) <= MaxRunRecords } }

RunMaintainerLists == { m \in MaintainerLists : m = <<>> \/ m = << <<"a", "l">> >> }

RunMappings ==
    { m \in Mappings : DOMAIN m \subseteq {U42} /\ \A u \in DOMAIN m : m[u].has_linked_pr }

InitArguments ==
    /\ original_json = "data/metrics.json"
    /\ output_json \in Paths
    /\ \E doc \in InputDocs :
          files = [f \in Paths |-> IF f = original_json THEN doc ELSE Absent]
    /\ ops = <<>>
    /\ data = <<>>
    /\ k = 0
    /\ issue_number = NoNumber
    /\ comments = <<>>
    /\ extra_data = EmptyDict
    /\ attempt = 0
    /\ faults = 0
    /\ log = <<>>
    /\ repo_i = 0
    /\ now_ms = 0
    /\ reset_time = NoHeaderValue
    /\ df = NoFrame
    /\ IdleFetch
    /\ IdleRelease

(* merge_and_save called with and without a maintainer list *)
InitRun ==
    /\ pc = "ms_load"
    /\ script = "merge_and_save"
    /\ token = "set"
    /\ exit_status = NoExit
    /\ maintainers_given \in BOOLEAN
    /\ maintainers \in IF maintainers_given THEN RunMaintainerLists ELSE { <<>> }
    /\ InitArguments

(* lines 219-224 *)
RunLoad ==
    /\ pc = "ms_load"
    /\ LET doc == files[original_json] IN
       IF ~doc.exists
       THEN /\ pc' = "ms_raised"
            /\ UNCHANGED <<ops, data>>
       ELSE IF ~HasIssuesKey(doc)
       THEN /\ pc' = "ms_returned"
            /\ ops' = ops \o <<"load", "log_error">>
            /\ UNCHANGED data
       ELSE /\ pc' = "ms_fetch"
            /\ ops' = Append(ops, "load")
            /\ data' = doc.issues
    /\ UNCHANGED <<attempt, faults, log, maintainers, k, issue_number, comments, extra_data>>
    /\ UNCHANGED <<script, token, exit_status, maintainers_given, original_json,
                   output_json, files, repo_i, now_ms, reset_time, df>>
    /\ UNCHANGED <<fetchVars, releaseVars>>

(* lines 226-230: the fetch returns its mapping *)
RunFetch ==
    /\ pc = "ms_fetch"
    /\ extra_data' \in RunMappings
    /\ ops' = Append(ops, "request")
    /\ IF maintainers_given
       THEN pc' = "m_start" /\ k' = 0
       ELSE pc' = "merge" /\ k' = 1
    /\ UNCHANGED <<attempt, faults, log, data, maintainers, issue_number, comments>>
    /\ UNCHANGED <<script, token, exit_status, maintainers_given, original_json,
                   output_json, files, repo_i, now_ms, reset_time, df>>
    /\ UNCHANGED <<fetchVars, releaseVars>>

(* line 226: the fetch raises (line 98 on a body that is no list) *)
RunFetchRaises ==
    /\ pc = "ms_fetch"
    /\ ops' = Append(ops, "request")
    /\ pc' = "ms_raised"
    /\ UNCHANGED <<attempt, faults, log, recordVars>>
    /\ UNCHANGED <<script, token, exit_status, maintainers_given, original_json,
                   output_json, files, repo_i, now_ms, reset_time, df>>
    /\ UNCHANGED <<fetchVars, releaseVars>>

(* lines 230-233: add_maintainer_responses has returned *)
RunMerge ==
    /\ pc = "m_returned"
    /\ script # "none"
    /\ pc' = "merge"
    /\ k' = 1
    /\ attempt' = 0
    /\ log' = <<>>
    /\ UNCHANGED <<faults, data, maintainers, issue_number, comments, extra_data>>
    /\ UNCHANGED <<fetchVars, releaseVars, runVars>>

(* a write that flushes the dataset while the merge loop is still running *)
RunWriteIncremental ==
    /\ pc = "merge"
    /\ k <= Len(data)
    /\ "write" \notin { ops[i] : i \in 1..Len(ops) }
    /\ files' = [files EXCEPT ![output_json] = Document(data)]
    /\ ops' = Append(ops, "write")
    /\ UNCHANGED <<pc, attempt, faults, log, recordVars>>
    /\ UNCHANGED <<script, token, exit_status, maintainers_given, original_json,
                   output_json, repo_i, now_ms, reset_time, df>>
    /\ UNCHANGED <<fetchVars, releaseVars>>

(* lines 240-241 *)
RunWrite ==
    /\ pc = "merged"
    /\ script # "none"
    /\ files' = [files EXCEPT ![output_json] = Document(data)]
    /\ ops' = Append(ops, "write")
    /\ pc' = "ms_written"
    /\ UNCHANGED <<attempt, faults, log, recordVars>>
    /\ UNCHANGED <<script, token, exit_status, maintainers_given, original_json,
                   output_json, repo_i, now_ms, reset_time, df>>
    /\ UNCHANGED <<fetchVars, releaseVars>>

(* lines 242-244 *)
RunRemove ==
    /\ pc = "ms_written"
    /\ files' = [files EXCEPT ![original_json] = Absent]
    /\ ops' = Append(ops, "remove")
    /\ pc' = "ms_done"
    /\ UNCHANGED <<attempt, faults, log, recordVars>>
    /\ UNCHANGED <<script, token, exit_status, maintainers_given, original_json,
                   output_json, repo_i, now_ms, reset_time, df>>
    /\ UNCHANGED <<fetchVars, releaseVars>>

(* where a run of merge_and_save can be when the process is interrupted *)
RunningAt ==
    {"ms_load", "ms_fetch", "m_start", "m_issue", "m_req", "m_returned",
     "merge", "merged", "ms_written"}

(* the process is killed or interrupted: nothing in lines 216-273 handles it *)
Interrupt ==
    /\ script # "none"
    /\ pc \in RunningAt
    /\ pc' = "interrupted"
    /\ UNCHANGED <<attempt, faults, log, recordVars, fetchVars, releaseVars, runVars>>

NextRun == RunLoad \/ RunFetch \/ RunFetchRaises \/ RunMerge \/ RunWrite \/ RunRemove
           \/ Interrupt

-----------------------------------------------------------------------------
(* convert_json, scripts/convert_json.py lines 11-86.  df holds whether    *)
(* the JSON file exists, whether the document has the key "issues", the    *)
(* columns of the frame built from data["issues"], its index, and whether  *)
(* the Parquet file was written.                                           *)

(* lines 30-36 *)
cols_to_convert ==
    <<"time_to_first_response", "time_to_close", "time_to_answer", "time_in_draft">>

(* line 63 *)
OptionalColumns == <<"milestone", "user", "assignees">>

(* the columns the records of the document can have *)
ColumnSets == SUBSET {"created_at", "time_to_close", "label_metrics", "milestone"}

Frame(present, key, cols) ==
    [exists |-> present, issues_key |-> key, columns |-> cols,
     index |-> None, parquet |-> FALSE]

ConvertInputs ==
    {Frame(FALSE, FALSE, {}), Frame(TRUE, FALSE, {})}
        \cup { Frame(TRUE, TRUE, c) : c \in ColumnSets }

InitConvert ==
    /\ pc = "cj_call"
    /\ df \in ConvertInputs
    /\ script = "none"
    /\ token = "unset"
    /\ exit_status = NoExit
    /\ maintainers_given = FALSE
    /\ original_json = "data/metrics.json"
    /\ output_json = "data/updated.json"
    /\ files = [f \in Paths |-> Absent]
    /\ ops = <<>>
    /\ repo_i = 0
    /\ now_ms = 0
    /\ reset_time = NoHeaderValue
    /\ attempt = 0
    /\ faults = 0
    /\ log = <<>>
    /\ IdleFetch
    /\ IdleRecords
    /\ IdleRelease

(* one warning for every column of names that the frame lacks, in order *)
RECURSIVE MissingWarnings(_, _, _)
MissingWarnings(names, cols, msg) ==
    IF names = <<>> THEN <<>>
    ELSE (IF Head(names) \in cols THEN <<>>
          ELSE <<LogAbout("warning", msg, <<Head(names)>>)>>)
         \o MissingWarnings(Tail(names), cols, msg)

(* line 68: "created_at" in df.columns *)
HasCreatedAt(cols) == "created_at" \in cols

(* lines 38-83: the function runs to a return *)
ConvertJson ==
    /\ pc = "cj_call"
    /\ IF ~df.exists
       THEN /\ log' = <<Log("error", "JSON file not found")>>
            /\ df' = df
       ELSE IF ~HasIssuesKey(df)
       THEN /\ log' = <<Log("error", "Key 'issues' not found in JSON data")>>
            /\ df' = df
       ELSE LET warnings ==
                    MissingWarnings(cols_to_convert, df.columns,
                                    "Column not found; skipping conversion")
                    \o MissingWarnings(OptionalColumns, df.columns,
                                       "Optional column not found")
            IN  IF HasCreatedAt(df.columns)
                THEN /\ df' = [df EXCEPT !.index = "created_at",
                                         !.columns = @ \ {"created_at", "label_metrics"},
                                         !.parquet = TRUE]
                     /\ log' = Append(warnings, Log("info", "Parquet file saved"))
                ELSE /\ df' = df
                     /\ log' = Append(warnings,
                                      Log("error", "Column 'created_at' not found"))
    /\ pc' = "cj_returned"
    /\ UNCHANGED <<attempt, faults, recordVars, fetchVars, releaseVars>>
    /\ UNCHANGED <<script, token, exit_status, maintainers_given, original_json,
                   output_json, files, ops, repo_i, now_ms, reset_time>>

(* lines 85-86: json.load, pandas or to_parquet raises; the exception is   *)
(* logged and the function returns                                         *)
ConvertJsonRaises ==
    /\ pc = "cj_call"
    /\ df.exists
    /\ log' = <<Log("error", "An error occurred during conversion")>>
    /\ pc' = "cj_returned"
    /\ UNCHANGED <<attempt, faults, recordVars, fetchVars, releaseVars, runVars>>

NextConvert == ConvertJson \/ ConvertJsonRaises

-----------------------------------------------------------------------------
(* The command-line entry points: scripts/update_issues.py lines 263-273,  *)
(* scripts/get_releases.py lines 55-76, scripts/process_repos.py lines     *)
(* 18-42.  token is "unset" (no GH_TOKEN in the environment), "empty" or   *)
(* "set".  A child process of process_repos.py is one step.                *)

Scripts == {"update_issues.py", "get_releases.py", "process_repos.py"}

Tokens == {"unset", "empty", "set"}

(* len(REPOS), process_repos.py lines 4-9 *)
NumRepos == 4

(* `if not token`: None and "" are false *)
HasToken(t) == t = "set"

(* the input files the entry points are started on *)
MainDocs == { d \in InputDocs : d.issues = <<>> }

(* json_out as an earlier run may have left it *)
StaleOutputs == {Absent, Document(<<>>)}

InitMain ==
    /\ pc = "main"
    /\ script \in Scripts
    /\ token \in Tokens
    /\ exit_status = NoExit
    /\ maintainers_given = TRUE
    /\ maintainers \in IF script = "update_issues.py" THEN RunMaintainerLists
                                                       ELSE { <<>> }
    /\ original_json = "data/metrics.json"
    /\ output_json \in IF script = "update_issues.py" THEN Paths
                                                       ELSE {"data/updated.json"}
    /\ \E doc \in MainDocs, old \in StaleOutputs :
          /\ script # "update_issues.py" => doc = Document(<<>>)
          /\ script # "process_repos.py" => old = Absent
          /\ files = [f \in Paths |-> IF f = original_json THEN doc ELSE old]
    /\ ops = <<>>
    /\ data = <<>>
    /\ k = 0
    /\ issue_number = NoNumber
    /\ comments = <<>>
    /\ extra_data = EmptyDict
    /\ attempt = 0
    /\ faults = 0
    /\ log = <<>>
    /\ repo_i = 0
    /\ now_ms = 0
    /\ reset_time = NoHeaderValue
    /\ df = NoFrame
    /\ IdleFetch
    /\ IdleRelease

(* update_issues.py lines 263-273: without a token the error is logged and *)
(* the script runs off its end; with one merge_and_save is called          *)
MainUpdateIssues ==
    /\ pc = "main"
    /\ script = "update_issues.py"
    /\ IF ~HasToken(token)
       THEN /\ ops' = Append(ops, "log_error")
            /\ exit_status' = 0
            /\ pc' = "exited"
       ELSE /\ pc' = "ms_load"
            /\ UNCHANGED <<ops, exit_status>>
    /\ UNCHANGED <<attempt, faults, log, recordVars, fetchVars, releaseVars>>
    /\ UNCHANGED <<script, token, maintainers_given, original_json, output_json,
                   files, repo_i, now_ms, reset_time, df>>

(* update_issues.py: merge_and_save has returned (status 0) or an          *)
(* exception has left it (traceback, status 1)                             *)
ExitUpdateIssues ==
    /\ script = "update_issues.py"
    /\ pc \in {"ms_returned", "ms_done", "ms_raised", "m_raised"}
    /\ exit_status' = IF pc \in {"ms_returned", "ms_done"} THEN 0 ELSE 1
    /\ pc' = "exited"
    /\ UNCHANGED <<attempt, faults, log, recordVars, fetchVars, releaseVars>>
    /\ UNCHANGED <<script, token, maintainers_given, original_json, output_json,
                   files, ops, repo_i, now_ms, reset_time, df>>

(* get_releases.py lines 55-76: sys.exit(1) without a token; otherwise the *)
(* releases are fetched and the CSV is written, or requests.get raises     *)
MainGetReleases ==
    /\ pc = "main"
    /\ script = "get_releases.py"
    /\ IF ~HasToken(token)
       THEN /\ ops' = Append(ops, "print_error")
            /\ exit_status' = 1
       ELSE \/ /\ ops' = ops \o <<"request", "write">>
               /\ exit_status' = 0
            \/ /\ ops' = Append(ops, "request")
               /\ exit_status' = 1
    /\ pc' = "exited"
    /\ UNCHANGED <<attempt, faults, log, recordVars, fetchVars, releaseVars>>
    /\ UNCHANGED <<script, token, maintainers_given, original_json, output_json,
                   files, repo_i, now_ms, reset_time, df>>

(* process_repos.py line 18: os.environ["GH_TOKEN"] raises KeyError when   *)
(* the variable is unset; an empty value passes                            *)
MainProcessRepos ==
    /\ pc = "main"
    /\ script = "process_repos.py"
    /\ IF token = "unset"
       THEN /\ exit_status' = 1
            /\ pc' = "exited"
            /\ repo_i' = repo_i
       ELSE /\ exit_status' = exit_status
            /\ pc' = "pr_update"
            /\ repo_i' = 1
    /\ UNCHANGED <<attempt, faults, log, recordVars, fetchVars, releaseVars>>
    /\ UNCHANGED <<script, token, maintainers_given, original_json, output_json,
                   files, ops, now_ms, reset_time, df>>

(* lines 27-38: the child update_issues.py; check=True ends the script     *)
(* when the child's status is not 0                                        *)
ProcessUpdateIssues ==
    /\ pc = "pr_update"
    /\ IF ~HasToken(token)
       THEN /\ ops' = Append(ops, "log_error")
            /\ pc' = "pr_convert"
            /\ UNCHANGED <<files, exit_status>>
       ELSE \/ /\ ops' = ops \o <<"load", "request", "write", "remove">>
               /\ files' = [f \in Paths |-> IF f = original_json THEN Absent
                                             ELSE Document(<<>>)]
               /\ pc' = "pr_convert"
               /\ UNCHANGED exit_status
            \/ /\ ops' = ops \o <<"load", "request">>
               /\ exit_status' = 1
               /\ pc' = "exited"
               /\ UNCHANGED files
    /\ UNCHANGED <<attempt, faults, log, recordVars, fetchVars, releaseVars>>
    /\ UNCHANGED <<script, token, maintainers_given, original_json, output_json,
                   repo_i, now_ms, reset_time, df>>

(* lines 39-41: the child convert_json.py writes the Parquet file when     *)
(* json_out exists, logs an error when it does not; its status is 0        *)
ProcessConvertJson ==
    /\ pc = "pr_convert"
    /\ ops' = Append(ops, IF files[output_json].exists THEN "write_parquet"
                                                       ELSE "log_error")
    /\ pc' = "pr_releases"
    /\ UNCHANGED <<attempt, faults, log, recordVars, fetchVars, releaseVars>>
    /\ UNCHANGED <<script, token, exit_status, maintainers_given, original_json,
                   output_json, files, repo_i, now_ms, reset_time, df>>

(* line 42 and the next iteration of `for name, repo in REPOS.items()`:    *)
(* the files of the next repository are as earlier runs left them          *)
ProcessGetReleases ==
    /\ pc = "pr_releases"
    /\ IF ~HasToken(token)
       THEN /\ ops' = Append(ops, "print_error")
            /\ exit_status' = 1
            /\ pc' = "exited"
            /\ UNCHANGED <<files, repo_i>>
       ELSE /\ ops' = ops \o <<"request", "write">>
            /\ IF repo_i < NumRepos
               THEN /\ repo_i' = repo_i + 1
                    /\ pc' = "pr_update"
                    /\ \E old \in StaleOutputs :
                          files' = [f \in Paths |-> IF f = original_json
                                                    THEN Document(<<>>) ELSE old]
                    /\ UNCHANGED exit_status
               ELSE /\ exit_status' = 0
                    /\ pc' = "exited"
                    /\ UNCHANGED <<files, repo_i>>
    /\ UNCHANGED <<attempt, faults, log, recordVars, fetchVars, releaseVars>>
    /\ UNCHANGED <<script, token, maintainers_given, original_json, output_json,
                   now_ms, reset_time, df>>

NextMain ==
    \/ MainUpdateIssues \/ ExitUpdateIssues \/ MainGetReleases
    \/ MainProcessRepos \/ ProcessUpdateIssues \/ ProcessConvertJson
    \/ ProcessGetReleases

-----------------------------------------------------------------------------
(* _handle_rate_limit called on its own, scripts/update_issues.py lines    *)
(* 17-35.  time.time() is a float: now_ms is the clock in milliseconds.    *)
(* X-RateLimit-Reset is a whole number of seconds.                         *)

Clocks == {100000, 100500, 100999}

ResetValues == {NoHeaderValue} \cup { [present |-> TRUE, value |-> r] : r \in {97, 100, 101, 105} }

(* line 26: int(reset_time) - int(time.time()) *)
HeaderOf(h, t) ==
    [present |-> h.present, delta |-> IF h.present THEN h.value - (t \div 1000) ELSE 0]

InitRateLimit ==
    /\ pc = "rl_call"
    /\ now_ms \in Clocks
    /\ reset_time \in ResetValues
    /\ script = "none"
    /\ token = "unset"
    /\ exit_status = NoExit
    /\ maintainers_given = FALSE
    /\ original_json = "data/metrics.json"
    /\ output_json = "data/updated.json"
    /\ files = [f \in Paths |-> Absent]
    /\ ops = <<>>
    /\ repo_i = 0
    /\ df = NoFrame
    /\ attempt = 0
    /\ faults = 0
    /\ log = <<>>
    /\ IdleFetch
    /\ IdleRecords
    /\ IdleRelease

HandleRateLimit ==
    /\ pc = "rl_call"
    /\ log' = _handle_rate_limit(HeaderOf(reset_time, now_ms), "")
    /\ pc' = "rl_returned"
    /\ UNCHANGED <<attempt, faults, recordVars, fetchVars, releaseVars, runVars>>

-----------------------------------------------------------------------------
(* Every function of the scripts, started on its own *)

Init ==
    \/ InitFetch \/ InitClassify \/ InitMerge \/ InitRelease
    \/ InitRun \/ InitConvert \/ InitMain \/ InitRateLimit

Next ==
    \/ NextFetch \/ NextClassify \/ NextMerge \/ ClassifyRelease
    \/ NextRun \/ NextConvert \/ NextMain \/ HandleRateLimit

Spec == Init /\ [][Next]_vars

-----------------------------------------------------------------------------
(* Properties of the retry loops *)

Requests == { i \in 1..Len(log) : log[i].ev = "request" }

FailedWith(status) == { i \in Requests : log[i].status = status }

(* the html_urls of the issues (not pull requests) the parsed pages listed *)
ListedIssues ==
    LET all == Flatten(served) IN
    { i \in 1..Len(all) : ~all[i].pull_request }

ListedUrls == { Flatten(served)[i].html_url : i \in ListedIssues }

StoppedAtEmptyPage ==
    pc = "returned" /\ result.status = 200 /\ result.items = <<>>

(* C1: a 403 response to a page or timeline request consumes no retry     *)
(* slot: every request of a retry loop carries the attempt index given by *)
(* the number of earlier requests of the loop that failed otherwise than  *)
(* with 403, so the request after a 403 is the same attempt again.        *)
C1_RateLimitKeepsRetrySlot ==
    \A i \in Requests :
        log[i].what \in {"page", "timeline"} =>
            log[i].attempt =
                Cardinality({ j \in Requests : j < i /\ log[j].status # 403 })

(* C2: a request that keeps failing with a network error is attempted at  *)
(* most MAX_RETRIES times; after the failure of attempt n < MAX_RETRIES   *)
(* the code logs a warning and sleeps RETRY_DELAY * n seconds; after the  *)
(* failure of the last attempt it logs an error, does not sleep for a     *)
(* retry, and goes on without raising: the page fetch returns the mapping *)
(* of the issues listed so far, the timeline lookup leaves has_linked_pr  *)
(* false, the comment lookup leaves maintainer_responded false.           *)
C2_TransientRetryBounded ==
    /\ Cardinality(FailedWith(Exception)) <= MAX_RETRIES
    /\ \A i \in FailedWith(Exception) :
         LET n == log[i].attempt + 1 IN
         IF n < MAX_RETRIES
         THEN /\ i + 2 <= Len(log)
              /\ log[i + 1].ev = "warning"
              /\ log[i + 2] = Sleep("backoff", RETRY_DELAY * n * 1000)
         ELSE /\ n = MAX_RETRIES
              /\ i + 1 <= Len(log)
              /\ log[i + 1].ev = "error"
              /\ \A j \in (i + 1)..Len(log) :
                    ~(log[j].ev = "sleep" /\ log[j].what = "backoff")
              /\ pc # "raised"
              /\ log[i].what = "page" =>
                    pc = "returned" /\ DOMAIN add_cols = ListedUrls
              /\ log[i].what = "timeline" =>
                    pc \in {"item", "page_req"} /\ ~has_linked_pr
              /\ log[i].what = "comments" =>
                    /\ pc \in {"m_issue", "m_returned", "interrupted"}
                    /\ data[k - 1].maintainer_responded = FALSE

C2_Witness ==
    /\ pc = "returned"
    /\ Cardinality(FailedWith(Exception)) = MAX_RETRIES
    /\ DOMAIN add_cols # {}

(* C3 as stated: a page response with a status other than 200 and 403 is  *)
(* logged and ends the fetch: the page is not requested again and the     *)
(* function returns the mapping accumulated so far.                       *)
C3_OtherStatusAbortsAtOnce ==
    \A i \in Requests :
        (log[i].what = "page" /\ log[i].status \notin {200, 403, Exception}) =>
            /\ pc = "returned"
            /\ \A j \in Requests : j <= i

(* C3 as the code has it: the status is logged as an error; before the    *)
(* last iteration of the retry loop the code sleeps RETRY_DELAY * n and   *)
(* requests the page again; on the last iteration the function returns    *)
(* the mapping of the issues listed so far.                               *)
C3_OtherStatusRetriedThenAborts ==
    \A i \in Requests :
        (log[i].what = "page" /\ log[i].status \notin {200, 403, Exception}) =>
            LET n == log[i].attempt + 1 IN
            /\ i + 1 <= Len(log)
            /\ log[i + 1] = Log("error", "GitHub API error")
            /\ IF n < MAX_RETRIES
               THEN /\ i + 2 <= Len(log)
                    /\ log[i + 2] = Sleep("backoff", RETRY_DELAY * n * 1000)
                    /\ i + 2 = Len(log) => (pc = "page_req" /\ attempt = n)
               ELSE /\ i + 1 = Len(log)
                    /\ pc = "returned"
                    /\ DOMAIN add_cols = ListedUrls

C3_Witness ==
    /\ pc = "returned"
    /\ Cardinality(Requests) = MAX_RETRIES
    /\ \A i \in Requests : log[i].status = 500
    /\ DOMAIN add_cols # {}

(* C4: the pages are requested in increasing order, page n+1 only after   *)
(* page n was parsed as a non-empty batch; the fetch stops at the first   *)
(* empty page and then returns exactly one entry, keyed by html_url, for  *)
(* every listed item that is not a pull request, with its milestone title *)
(* and assignee logins.                                                   *)
C4_PagesInOrderAndMappingComplete ==
    /\ \A p \in 1..Len(served) : served[p] # <<>>
    /\ pc \in {"page_req", "parse"} => page = Len(served) + 1
    /\ pc \in {"item", "tl_req"} => page = Len(served)
    /\ StoppedAtEmptyPage =>
         /\ page = Len(served) + 1
         /\ DOMAIN add_cols = ListedUrls
         /\ Cardinality(DOMAIN add_cols) = Cardinality(ListedIssues)
         /\ \A i \in ListedIssues :
              LET item == Flatten(served)[i]
                  entry == add_cols[item.html_url] IN
              /\ entry.milestone =
                    (IF item.milestone.null THEN None ELSE item.milestone.title)
              /\ Len(entry.assignees) = Len(item.assignees)
              /\ \A a \in 1..Len(item.assignees) :
                    entry.assignees[a] = item.assignees[a].login

C4_Witness ==
    /\ StoppedAtEmptyPage
    /\ Len(served) = 2
    /\ \E i \in 1..Len(Flatten(served)) : Flatten(served)[i].pull_request
    /\ ListedIssues # {}

-----------------------------------------------------------------------------
(* Properties of the merge loop *)

EnrichFields == {"milestone", "assignees", "has_linked_pr"}

(* issue.get("html_url") *)
UrlOf(issue) == IF "html_url" \in DOMAIN issue THEN issue.html_url ELSE NoneUrl

(* C5: the iteration of the merge loop on a record whose html_url is a    *)
(* key of the enrichment mapping sets milestone, assignees and            *)
(* has_linked_pr to the mapping's values, leaves every other field of the *)
(* record and every other record as they were; so after the loop every    *)
(* such record carries the mapping's values.                              *)
C5_MergeSetsMappedFields ==
    /\ [][ (pc = "merge" /\ k <= Len(data) /\ UrlOf(data[k]) \in DOMAIN extra_data
             /\ pc' # "interrupted") =>
             LET old == data[k]
                 new == data'[k]
                 e == extra_data[UrlOf(data[k])] IN
             /\ new.milestone = e.milestone
             /\ new.assignees = e.assignees
             /\ new.has_linked_pr = e.has_linked_pr
             /\ DOMAIN new = (DOMAIN old) \cup EnrichFields
             /\ \A f \in (DOMAIN old) \ EnrichFields : new[f] = old[f]
             /\ Len(data') = Len(data)
             /\ \A j \in 1..Len(data) : j # k => data'[j] = data[j] ]_vars
    /\ [](pc = "merged" =>
             \A j \in 1..Len(data) :
                UrlOf(data[j]) \in DOMAIN extra_data =>
                    LET e == extra_data[UrlOf(data[j])] IN
                    /\ data[j].milestone = e.milestone
                    /\ data[j].assignees = e.assignees
                    /\ data[j].has_linked_pr = e.has_linked_pr)

(* a record enriched by an earlier run is overwritten with other values *)
C5_Witness ==
    /\ pc = "merged"
    /\ \E j \in 1..Len(data) :
          /\ UrlOf(data[j]) = U7
          /\ U7 \in DOMAIN extra_data
          /\ data[j].milestone = "v1.0"
          /\ data[j].maintainer_responded = TRUE

(* C6: the iteration of the merge loop on a record whose html_url has no  *)
(* entry in the mapping changes no record (no field is modified, none of  *)
(* milestone/assignees/has_linked_pr is added), logs exactly one warning, *)
(* about that record's URL, and the loop goes on with the next record.    *)
C6_MissingEntryLeavesRecord ==
    [][ (pc = "merge" /\ k <= Len(data) /\ UrlOf(data[k]) \notin DOMAIN extra_data
         /\ pc' # "interrupted") =>
          /\ data' = data
          /\ log' = Append(log, LogAbout("warning", "No enrichment data found",
                                         UrlOf(data[k])))
          /\ k' = k + 1
          /\ pc' = "merge" ]_vars

(* a record enriched by an earlier run and a record never enriched, both  *)
(* without an entry, after the loop                                       *)
C6_Witness ==
    /\ pc = "merged"
    /\ Len(log) = 2
    /\ \E i, j \in 1..Len(data) :
          /\ UrlOf(data[i]) \notin DOMAIN extra_data
          /\ "milestone" \in DOMAIN data[i]
          /\ UrlOf(data[j]) \notin DOMAIN extra_data
          /\ "milestone" \notin DOMAIN data[j]

(* C7: applying the merge loop again, with the same mapping, to the       *)
(* dataset the merge loop produced leaves every record as it is.          *)
C7_MergeIdempotent ==
    pc = "merged" => MergeAll(data, extra_data) = data

C7_Witness ==
    /\ pc = "merged"
    /\ \E j \in 1..Len(data) :
          /\ UrlOf(data[j]) \in DOMAIN extra_data
          /\ extra_data[UrlOf(data[j])].assignees # <<>>
          /\ data[j].assignees = extra_data[UrlOf(data[j])].assignees

-----------------------------------------------------------------------------
(* Properties of the maintainer classification *)

CasePairs == { {"A", "a"}, {"B", "b"}, {"L", "l"}, {"O", "o"} }

(* equality of two logins up to the case of their letters *)
SameIgnoringCase(a, b) ==
    /\ Len(a) = Len(b)
    /\ \A i \in 1..Len(a) : a[i] = b[i] \/ {a[i], b[i]} \in CasePairs

(* the comments of record k - 1 were listed without error by the last step *)
CommentsListed ==
    /\ pc \in {"m_issue", "m_returned"}
    /\ log # <<>>
    /\ log[Len(log)].ev = "request"
    /\ log[Len(log)].what = "comments"
    /\ log[Len(log)].status = 200

(* C8: when the comments of an issue are listed without error, its        *)
(* maintainer_responded is true exactly if some comment author equals     *)
(* some configured maintainer up to case.                                 *)
C8_MaintainerMatchIgnoresCase ==
    CommentsListed =>
        (data[k - 1].maintainer_responded =
            (\E c \in 1..Len(comments), m \in 1..Len(maintainers) :
                 SameIgnoringCase(comments[c], maintainers[m])))

(* author "Al" matches the configured maintainer "al" *)
C8_Witness ==
    /\ CommentsListed
    /\ data[k - 1].maintainer_responded = TRUE
    /\ \E c \in 1..Len(comments), m \in 1..Len(maintainers) :
          SameIgnoringCase(comments[c], maintainers[m]) /\ comments[c] # maintainers[m]

(* the issue numbers of the URLs of the dataset that have one *)
ExpectedNumber == (U42 :> 42) @@ (U7 :> 7) @@ (U7Slash :> 7)

CommentsGivenUp ==
    \E i \in Requests :
        /\ log[i].what = "comments"
        /\ log[i].status = Exception
        /\ log[i].attempt = MAX_RETRIES - 1

(* C9: a comment request is made only with the number derived from the    *)
(* record's html_url; a record whose html_url gives no number gets        *)
(* maintainer_responded = false with a warning and no request; a record   *)
(* whose comment lookup failed MAX_RETRIES times gets false with an error *)
(* log; in both cases the loop goes on, and it ends only after the last   *)
(* record, every record then carrying the field.                          *)
C9_PerIssueFailureIsSkipped ==
    /\ pc = "m_req" =>
         /\ Get(data[k], "html_url", <<>>) \in DOMAIN ExpectedNumber
         /\ issue_number = ExpectedNumber[Get(data[k], "html_url", <<>>)]
    /\ pc \in {"m_issue", "m_req", "m_returned"} =>
         \A j \in 1..(k - 1) :
            /\ "maintainer_responded" \in DOMAIN data[j]
            /\ Get(data[j], "html_url", <<>>) \notin DOMAIN ExpectedNumber =>
                  data[j].maintainer_responded = FALSE
    /\ (pc \in {"m_issue", "m_returned"} /\ Requests = {} /\ log # <<>>) =>
         /\ log = <<LogAbout("warning", "Could not extract issue number",
                             Get(data[k - 1], "html_url", <<>>))>>
         /\ Get(data[k - 1], "html_url", <<>>) \notin DOMAIN ExpectedNumber
         /\ data[k - 1].maintainer_responded = FALSE
    /\ CommentsGivenUp =>
         /\ pc \in {"m_issue", "m_returned", "interrupted"}
         /\ log[Len(log)].ev = "error"
         /\ data[k - 1].maintainer_responded = FALSE
    /\ (pc = "m_returned" /\ maintainers # <<>> /\ data # <<>>) => k = Len(data) + 1
    /\ (pc = "m_issue") => k <= Len(data)

(* a record with a malformed URL was skipped, the next record's comment   *)
(* lookup failed three times, and the loop ran to its end                 *)
C9_Witness ==
    /\ pc = "m_returned"
    /\ CommentsGivenUp
    /\ Len(data) = 2
    /\ Get(data[1], "html_url", <<>>) = UBad
    /\ data[1].maintainer_responded = FALSE
    /\ data[2].maintainer_responded = FALSE

-----------------------------------------------------------------------------
(* Properties of classify_release *)

IsDigitAt(t, i) == t[i] \in {"0", "1", "2", "3", "4", "5", "6", "7", "8", "9"}

(* value of the digits t[a..b] *)
RECURSIVE ValueOf(_, _, _)
ValueOf(t, a, b) ==
    IF b < a THEN 0
    ELSE ValueOf(t, a, b - 1) * 10 + (CHOOSE d \in 0..9 : DigitChars[d + 1] = t[b])

(* the ways to read a tag as [v]MAJOR.MINOR.PATCH followed by a rest that *)
(* does not go on with a digit: <<MAJOR, MINOR, PATCH, length read>>      *)
VersionSplits(t) ==
    { <<ValueOf(t, o + 1, a), ValueOf(t, a + 2, b), ValueOf(t, b + 2, c), c>> :
        <<o, a, b, c>> \in
            { q \in (0..1) \X (1..Len(t)) \X (1..Len(t)) \X (1..Len(t)) :
                /\ q[1] = 1 => t[1] = "v"
                /\ q[1] < q[2] /\ q[2] + 1 < q[3] /\ q[3] + 1 < q[4]
                /\ \A i \in (q[1] + 1)..q[2] : IsDigitAt(t, i)
                /\ t[q[2] + 1] = "."
                /\ \A i \in (q[2] + 2)..q[3] : IsDigitAt(t, i)
                /\ t[q[3] + 1] = "."
                /\ \A i \in (q[3] + 2)..q[4] : IsDigitAt(t, i)
                /\ q[4] < Len(t) => ~IsDigitAt(t, q[4] + 1) } }

RuleOf(v) ==
    IF v[1] > 0 /\ v[2] = 0 /\ v[3] = 0 THEN "major"
    ELSE IF v[3] = 0 THEN "minor"
    ELSE "patch"

(* C10 as stated: a tag that is exactly [v]MAJOR.MINOR.PATCH is classified *)
(* by the rule, and every other tag is unknown.                            *)
C10_ExactShapeOrUnknown ==
    pc = "classified" =>
        LET exact == { v \in VersionSplits(tag) : v[4] = Len(tag) } IN
        /\ release_type \in {"major", "minor", "patch", "unknown"}
        /\ \A v \in exact : release_type = RuleOf(v)
        /\ exact = {} => release_type = "unknown"

(* C10 as the code has it: a tag that starts with [v]MAJOR.MINOR.PATCH,    *)
(* whatever follows the digits of PATCH, is classified by the rule (major  *)
(* iff MAJOR > 0, MINOR = 0 and PATCH = 0; minor iff PATCH = 0 and not     *)
(* major; patch otherwise), and a tag with no such start is unknown.       *)
C10_VersionPrefixOrUnknown ==
    pc = "classified" =>
        /\ release_type \in {"major", "minor", "patch", "unknown"}
        /\ \A v \in VersionSplits(tag) : release_type = RuleOf(v)
        /\ VersionSplits(tag) = {} => release_type = "unknown"

(* a tag that goes on after PATCH: 1.0.0 followed by more text is major *)
C10_Witness ==
    /\ pc = "classified"
    /\ tag = <<"1", ".", "0", ".", "0", "v">>
    /\ release_type = "major"

-----------------------------------------------------------------------------
(* Properties of the linked-PR lookup *)

TimelineRequests(l) ==
    { i \in 1..Len(l) : l[i].ev = "request" /\ l[i].what = "timeline" }

(* the events of a timeline that link a pull request to the issue *)
LinkedPREvents(timeline_events) ==
    { i \in 1..Len(timeline_events) :
        /\ timeline_events[i].event = "cross-referenced"
        /\ timeline_events[i].source_is_pr }

(* C11: a timeline request is issued only for an item that is an open      *)
(* issue; an item with another state is stored with has_linked_pr false    *)
(* and without any timeline request; has_linked_pr is stored true only for *)
(* an open issue whose timeline was answered with status 200 and holds a   *)
(* cross-referenced event whose source issue is a pull request.            *)
C11_LinkedPROnlyFromOpenTimeline ==
    [][ /\ (log' # log /\ TimelineRequests(log') # {}) =>
              /\ pc = "tl_req"
              /\ issues[idx].state = "open"
              /\ ~issues[idx].pull_request
        /\ \A url \in (DOMAIN add_cols') \ (DOMAIN add_cols) :
              LET item == issues[idx] IN
              /\ url = item.html_url
              /\ item.state # "open" =>
                    /\ ~add_cols'[url].has_linked_pr
                    /\ TimelineRequests(log') = {}
              /\ add_cols'[url].has_linked_pr =>
                    /\ item.state = "open"
                    /\ \E i \in TimelineRequests(log') :
                          /\ log'[i].status = 200
                          /\ LinkedPREvents(log'[i].ctx) # {}
      ]_vars

(* an open issue with a linked pull request and a closed issue, both stored *)
C11_Witness ==
    /\ Len(Flatten(served)) = 2
    /\ LET all == Flatten(served) IN
       /\ all[1].state = "open" /\ ~all[1].pull_request
       /\ all[2].state = "closed"
       /\ {all[1].html_url, all[2].html_url} \subseteq DOMAIN add_cols
       /\ add_cols[all[1].html_url].has_linked_pr
       /\ ~add_cols[all[2].html_url].has_linked_pr

-----------------------------------------------------------------------------
(* Properties of a whole run of merge_and_save and of convert_json *)

InMergeAndSave == script \in {"merge_and_save", "update_issues.py"}

ErrorLines(l) == { i \in 1..Len(l) : l[i].ev = "error" }

(* C12: a data-shape error is logged and ends the run without output:      *)
(* merge_and_save on an input without the key "issues" makes no API        *)
(* request, writes no file and does not delete the input, and returns      *)
(* after logging the error; convert_json on a document without the key     *)
(* "issues" or without a created_at column logs an error and writes no     *)
(* Parquet file.                                                           *)
C12_ShapeErrorWritesNothing ==
    /\ []((InMergeAndSave /\ files[original_json] = NoIssuesDoc) =>
            /\ \A i \in 1..Len(ops) : ops[i] \in {"load", "log_error"}
            /\ \A f \in Paths : f # original_json => files[f] = Absent
            /\ pc \in {"main", "ms_load", "ms_returned", "interrupted", "exited"})
    /\ [](pc = "ms_returned" =>
            /\ files[original_json] = NoIssuesDoc
            /\ ops = <<"load", "log_error">>)
    /\ [][ (pc = "cj_call" /\ df.exists
              /\ (~df.issues_key \/ "created_at" \notin df.columns)) =>
            /\ ~df'.parquet
            /\ ErrorLines(log') # {}
            /\ pc' = "cj_returned" ]_vars

(* merge_and_save has returned early on a document without the key *)
C12_Witness ==
    /\ pc = "ms_returned"
    /\ files[original_json] = NoIssuesDoc
    /\ original_json = output_json

OpsDone == { ops[i] : i \in 1..Len(ops) }

(* the run has ended before line 240: an exception or an interruption *)
FailedBeforeWrite ==
    /\ InMergeAndSave
    /\ pc \in {"ms_raised", "m_raised", "interrupted"}
    /\ "write" \notin OpsDone

(* C13: merge_and_save serializes the dataset exactly once, after the      *)
(* fetch, the maintainer classification and the merge loop have finished,  *)
(* and deletes the input file only after that write; a run that fails or   *)
(* is interrupted before the write has written no output file and has left *)
(* the input file in place.                                                *)
C13_WriteOnceAtTheEnd ==
    /\ [](InMergeAndSave =>
            /\ Cardinality({ i \in 1..Len(ops) : ops[i] = "write" }) <= 1
            /\ "write" \in OpsDone =>
                  /\ SubSeq(ops, 1, 3) = <<"load", "request", "write">>
                  /\ k = Len(data) + 1
                  /\ data = MergeAll(data, extra_data)
                  /\ (maintainers_given /\ maintainers # <<>>) =>
                        \A j \in 1..Len(data) : "maintainer_responded" \in DOMAIN data[j]
            /\ "remove" \in OpsDone => ops = <<"load", "request", "write", "remove">>
            /\ FailedBeforeWrite =>
                  /\ \A f \in Paths : f # original_json => files[f] = Absent
                  /\ "load" \in OpsDone => files[original_json].exists)
    /\ [][ (InMergeAndSave /\ files' # files) =>
            \/ /\ pc = "merged" /\ pc' = "ms_written"
               /\ files' = [files EXCEPT ![output_json] = Document(data)]
            \/ /\ pc = "ms_written" /\ pc' = "ms_done"
               /\ files' = [files EXCEPT ![original_json] = Absent] ]_vars

(* a run with a classification and a merge that wrote and then deleted *)
C13_Witness ==
    /\ pc = "ms_done"
    /\ ops = <<"load", "request", "write", "remove">>
    /\ original_json # output_json
    /\ maintainers # <<>>
    /\ data # <<>>
    /\ files[output_json] = Document(data)
    /\ files[original_json] = Absent

(* the dataset the completed run serialized at line 241 *)
Completed == InMergeAndSave /\ pc \in {"ms_written", "ms_done"}

HasRespondedField(issue) ==
    /\ "maintainer_responded" \in DOMAIN issue
    /\ issue.maintainer_responded \in BOOLEAN

C19_OutputHoldsDataset ==
    (InMergeAndSave /\ pc = "ms_done") => files[output_json] = Document(data)

-----------------------------------------------------------------------------
(* Properties of the command-line entry points *)

(* C14: each data-preparation script ends with a non-zero exit status when *)
(* GH_TOKEN is missing or empty, having made no API request and written no *)
(* output.                                                                 *)
C14_NoTokenExitsNonZero ==
    (script \in Scripts /\ token \in {"unset", "empty"}) =>
        /\ OpsDone \cap {"request", "write", "write_parquet", "remove"} = {}
        /\ pc = "exited" => exit_status # 0

-----------------------------------------------------------------------------
(* Properties of the rate-limit wait *)

(* the sleep of the call, in milliseconds *)
WaitedMs == log[Len(log)].ms

(* R - now in milliseconds, zero for a reset time in the past *)
UntilResetMs == Max(reset_time.value * 1000 - now_ms, 0)

Distance(a, b) == IF a >= b THEN a - b ELSE b - a

(* C16 as stated: the wait is never negative; with X-RateLimit-Reset = R   *)
(* it is R - now seconds to within one second (at most 1 second for a      *)
(* reset time in the past); without the header it is RATE_LIMIT_WAIT.      *)
C16_WaitWithinOneSecond ==
    pc = "rl_returned" =>
        /\ log[Len(log)].ev = "sleep"
        /\ WaitedMs >= 0
        /\ reset_time.present => Distance(WaitedMs, UntilResetMs) <= 1000
        /\ ~reset_time.present => WaitedMs = RATE_LIMIT_WAIT * 1000

(* C16 as the code has it: the clock is truncated to whole seconds and one *)
(* second is added, so the wait is a whole number of seconds that exceeds  *)
(* the time until the reset (zero when it is past) by at least one second  *)
(* and less than two; a reset 5 s away gives 6 s, a reset time in the past *)
(* gives exactly 1 s, and without the header the wait is RATE_LIMIT_WAIT.  *)
C16_WaitOneToTwoSecondsLong ==
    pc = "rl_returned" =>
        /\ log[Len(log)].ev = "sleep"
        /\ WaitedMs >= 0
        /\ reset_time.present =>
              /\ WaitedMs % 1000 = 0
              /\ UntilResetMs + 1000 <= WaitedMs
              /\ WaitedMs < UntilResetMs + 2000
              /\ UntilResetMs = 5000 => WaitedMs = 6000
              /\ reset_time.value * 1000 <= now_ms => WaitedMs = 1000
        /\ ~reset_time.present => WaitedMs = RATE_LIMIT_WAIT * 1000

(* the clock is half a second past the second and the reset is 4.5 s away *)
C16_Witness ==
    /\ pc = "rl_returned"
    /\ reset_time.present
    /\ now_ms % 1000 = 500
    /\ UntilResetMs = 4500
    /\ WaitedMs = 6000

-----------------------------------------------------------------------------
(* Properties of the retry loops under rate limiting *)

LastRequest == CHOOSE i \in Requests : \A j \in Requests : j <= i

(* the retry loop whose requests log holds has ended without a 200 *)
Abandoned ==
    /\ Requests # {}
    /\ log[LastRequest].status # 200
    /\ attempt = 0 \/ pc \in {"returned", "parse", "raised"}

(* a line that says the request was given up *)
GaveUpLine(i) ==
    \/ log[i].ev = "error"
    \/ log[i].ev = "warning" /\ log[i].what = "Could not fetch timeline"

(* C17: every retry, every rate-limit wait and every terminal failure of a *)
(* request is accompanied by a log line emitted before control moves on:   *)
(* a failed request is followed at once by a warning or an error, and a    *)
(* request that is abandoned is followed by a line that says so.           *)
C17_EveryFailureLogged ==
    /\ \A i \in Requests :
          log[i].status # 200 =>
              /\ i + 1 <= Len(log)
              /\ log[i + 1].ev \in {"warning", "error"}
    /\ Abandoned => \E j \in (LastRequest + 1)..Len(log) : GaveUpLine(j)

(* C18: a response body is parsed as a batch of issues only when the       *)
(* response had status 200; whatever the responses and network errors of   *)
(* the MAX_RETRIES attempts of a page, the function parses a 200 body or   *)
(* returns the accumulated mapping, and never parses another body or       *)
(* raises.                                                                 *)
C18_OnlyStatus200Parsed ==
    /\ pc = "parse" => result.status = 200
    /\ pc # "raised"

====
